---- MODULE Spec2Model ----
(***************************************************************************)
(* Model of the contact-form submission server (src/server.js): the        *)
(* POST /submit handler and its helpers safeUrl, tryNavigateToContact,     *)
(* fillHeuristics and clickSubmit, run against a browser whose operations  *)
(* either return or throw.                                                 *)
(*                                                                         *)
(* Strings that the code inspects (attribute values, link texts, URLs,     *)
(* page content) are sequences of tokens; "contains" is contiguous         *)
(* sub-sequence and a case-insensitive test compares lower-cased tokens.   *)
(***************************************************************************)
EXTENDS Integers, Sequences, FiniteSets, TLC

\* Number of browser operations that may throw within one request.
MaxFaults == 2

\* The number of POST /submit requests in flight together.
MaxReqs == 2

\* JavaScript's undefined and null, as request and response values.
Absent == "undefined"
Null == "null"

\* JavaScript truthiness of a request value (a string, or undefined).
Truthy(v) == v \notin {Absent, Null, ""}

----------------------------------------------------------------------------
\* Strings as token sequences.

Lower(t) ==
    CASE t = "Contact" -> "contact"
      [] t = "CONTACT" -> "contact"
      [] t = "Us" -> "us"
      [] t = "Full" -> "full"
      [] t = "Name" -> "name"
      [] t = "Send" -> "send"
      [] t = "Message" -> "message"
      [] t = "Submit" -> "submit"
      [] t = "Thank" -> "thank"
      [] t = "You" -> "you"
      [] t = "Phone" -> "phone"
      [] OTHER -> t

SameTok(a, b, ci) == IF ci THEN Lower(a) = Lower(b) ELSE a = b

\* sub occurs in s at offset i (1-based).
OccursAt(s, sub, i, ci) ==
    /\ i + Len(sub) - 1 <= Len(s)
    /\ \A j \in 1..Len(sub) : SameTok(s[i + j - 1], sub[j], ci)

Contains(s, sub, ci) == \E i \in 1..(Len(s) + 1) : OccursAt(s, sub, i, ci)

StartsWith(s, sub, ci) == OccursAt(s, sub, 1, ci)

----------------------------------------------------------------------------
\* The DOM: a page is the sequence of its elements in document order, an
\* element is named and has attributes.

E0 ==
    [tag |-> "", type |-> "", name |-> <<>>, id |-> <<>>,
     placeholder |-> <<>>, aria |-> <<>>, text |-> <<>>, href |-> <<>>,
     src |-> <<>>, class |-> {}]

Attrs(e) ==
    CASE e = "form" -> [E0 EXCEPT !.tag = "form"]
      [] e = "cap" -> [E0 EXCEPT !.tag = "div", !.class = {"g-recaptcha"}]
      [] e = "aUs" ->
           [E0 EXCEPT !.tag = "a", !.text = <<"Contact", "Us">>,
                      !.href = <<"/", "contact">>]
      [] e = "aTxt" -> [E0 EXCEPT !.tag = "a", !.text = <<"Contact">>]
      [] e = "aHash" ->
           [E0 EXCEPT !.tag = "a", !.text = <<"Get", "in", "touch">>,
                      !.href = <<"#", "contact">>]
      [] e = "aBad" ->
           [E0 EXCEPT !.tag = "a", !.text = <<"Contact">>,
                      !.href = <<"http://[">>]
      [] e = "aUpper" ->
           [E0 EXCEPT !.tag = "a", !.text = <<"Reach", "us">>,
                      !.href = <<"/", "CONTACT">>]
      [] e = "aHome" ->
           [E0 EXCEPT !.tag = "a", !.text = <<"Home">>, !.href = <<"/">>]
      [] e = "inType" -> [E0 EXCEPT !.tag = "input", !.type = "email"]
      [] e = "inYour" ->
           [E0 EXCEPT !.tag = "input", !.type = "text",
                      !.name = <<"your", "-", "email">>]
      [] e = "inName" ->
           [E0 EXCEPT !.tag = "input", !.type = "text",
                      !.placeholder = <<"Full", "Name">>]
      [] e = "inNick" ->
           [E0 EXCEPT !.tag = "input", !.type = "text",
                      !.id = <<"nick", "name">>]
      [] e = "inPhone" ->
           [E0 EXCEPT !.tag = "input", !.type = "tel",
                      !.name = <<"Phone">>]
      [] e = "inCo" ->
           [E0 EXCEPT !.tag = "input", !.type = "text",
                      !.name = <<"company">>]
      [] e = "taMsg" ->
           [E0 EXCEPT !.tag = "textarea", !.name = <<"message">>]
      [] e = "ta" -> [E0 EXCEPT !.tag = "textarea"]
      [] e = "btnSend" ->
           [E0 EXCEPT !.tag = "button", !.text = <<"Send", "Message">>]
      [] e = "btnSubmit" ->
           [E0 EXCEPT !.tag = "button", !.type = "submit",
                      !.text = <<"Go">>]

\* A simple selector: tag, and one test on an attribute.
Sel(tag, attr, op, val, ci) ==
    [tag |-> tag, attr |-> attr, op |-> op, val |-> val, ci |-> ci]

Matches(sel, e) ==
    LET el == Attrs(e) IN
    /\ sel.tag \in {"*", el.tag}
    /\ CASE sel.op = "any" -> TRUE
         [] sel.op = "eq" -> el[sel.attr] = sel.val
         [] sel.op = "contains" -> Contains(el[sel.attr], sel.val, sel.ci)
         [] sel.op = "prefix" -> StartsWith(el[sel.attr], sel.val, sel.ci)
         [] sel.op = "class" -> sel.val \in el.class

\* page.$(selector): the first element in document order that matches one of
\* the selectors of the (comma-separated) group, or null.
Query(dom, group) ==
    LET hits == {i \in 1..Len(dom) :
                    \E k \in 1..Len(group) : Matches(group[k], dom[i])}
    IN IF hits = {} THEN Null
       ELSE dom[CHOOSE i \in hits : \A j \in hits : i <= j]

----------------------------------------------------------------------------
\* Selector lists of the code, in their declared order.

Has(tag, attr, tok) == Sel(tag, attr, "contains", tok, TRUE)
HasText(tag, tok) == Sel(tag, "text", "contains", tok, TRUE)

patterns ==
    << Sel("a", "href", "contains", <<"contact">>, FALSE),
       Sel("a", "href", "contains", <<"Contact">>, FALSE),
       HasText("a", <<"Contact">>),
       HasText("a", <<"Contact", "Us">>),
       HasText("a", <<"Get", "in", "touch">>),
       Sel("a", "href", "contains", <<"contact", "-", "us">>, FALSE),
       Sel("a", "href", "contains", <<"contact", "-", "us">>, FALSE),
       Sel("a", "href", "prefix", <<"/", "contact">>, FALSE),
       Sel("a", "href", "prefix", <<"#", "contact">>, FALSE) >>

nameSelectors ==
    << Has("input", "name", <<"name">>), Has("input", "id", <<"name">>),
       Has("input", "placeholder", <<"name">>),
       Has("input", "aria", <<"name">>),
       Sel("input", "placeholder", "contains", <<"Full", "Name">>, FALSE) >>

emailSelectors ==
    << Sel("input", "type", "eq", "email", FALSE),
       Has("input", "name", <<"email">>), Has("input", "id", <<"email">>),
       Has("input", "placeholder", <<"email">>) >>

phoneSelectors ==
    << Has("input", "name", <<"phone">>), Has("input", "id", <<"phone">>),
       Has("input", "placeholder", <<"phone">>),
       Sel("input", "type", "eq", "tel", FALSE) >>

messageSelectors ==
    << Has("textarea", "name", <<"message">>),
       Has("textarea", "id", <<"message">>),
       Has("textarea", "placeholder", <<"message">>),
       Has("textarea", "aria", <<"message">>) >>

companySelectors ==
    << Has("input", "name", <<"company">>), Has("input", "id", <<"company">>),
       Has("input", "placeholder", <<"company">>) >>

submitSelectors ==
    << Sel("button", "type", "eq", "submit", FALSE),
       Sel("input", "type", "eq", "submit", FALSE),
       HasText("button", <<"Send">>), HasText("button", <<"Submit">>),
       HasText("button", <<"Send", "Message">>),
       HasText("button", <<"Contact", "Us">>) >>

formSelector == << Sel("form", "", "any", "", FALSE) >>

textareaSelector == << Sel("textarea", "", "any", "", FALSE) >>

captchaSelector ==
    << Sel("iframe", "src", "contains", <<"recaptcha">>, FALSE),
       Sel("*", "class", "class", "h-captcha", FALSE),
       Sel("*", "class", "class", "g-recaptcha", FALSE) >>

\* The order in which fillHeuristics calls tryFillList.
FieldOrder == <<"email", "name", "message", "phone", "company">>

SelectorsOf(key) ==
    CASE key = "email" -> emailSelectors
      [] key = "name" -> nameSelectors
      [] key = "message" -> messageSelectors
      [] key = "phone" -> phoneSelectors
      [] key = "company" -> companySelectors

----------------------------------------------------------------------------
\* URLs.  A URL is origin, path tokens, and an optional "#" fragment.

NullUrl == <<>>

Tokens(u) ==
    CASE u = "http://site/" -> <<"http://site", "/">>
      [] OTHER -> NullUrl

Origins == {"http://site", "http://other"}

Malformed(href) == Head(href) = "http://["

FragAt(u) == {i \in 1..Len(u) : u[i] = "#"}

StripFrag(u) ==
    IF FragAt(u) = {} THEN u
    ELSE SubSeq(u, 1, (CHOOSE i \in FragAt(u) : \A j \in FragAt(u) : i <= j) - 1)

\* new URL(href, base).href, or null when the constructor throws.
safeUrl(base, href) ==
    IF base = NullUrl \/ Malformed(href) THEN NullUrl
    ELSE IF Head(href) \in Origins
         THEN (IF Len(href) = 1 THEN href \o <<"/">> ELSE href)
    ELSE IF Head(href) = "/" THEN <<Head(base)>> \o href
    ELSE IF Head(href) = "#" THEN StripFrag(base) \o href
    ELSE StripFrag(base) \o href

\* The href property of an anchor node (n.href), as $$eval reads it: the
\* attribute resolved against the document, "" without the attribute, and
\* the attribute itself when it does not parse.
HrefProp(docUrl, e) ==
    LET attr == Attrs(e).href IN
    IF attr = <<>> THEN <<>>
    ELSE IF safeUrl(docUrl, attr) = NullUrl THEN attr
    ELSE safeUrl(docUrl, attr)

----------------------------------------------------------------------------
\* The pages a site may serve.

BodyA == <<"inYour", "taMsg", "btnSend">>

BodyMulti ==
    <<"inType", "inYour", "inNick", "inName", "inPhone", "inCo", "ta",
      "taMsg", "btnSubmit", "btnSend">>

BodyTa == <<"inName", "ta">>

Blank == <<>>

LandingPages ==
    { <<"form">> \o BodyA, <<"form">> \o BodyMulti, <<"form">> \o BodyTa,
      <<"form", "aUs">> \o BodyA,
      <<"cap", "form">> \o BodyA, <<"cap">>, <<"cap", "aUs">>,
      <<"cap", "aHash">> \o BodyA,
      <<"aHome", "aUs">>, <<"aTxt">> \o BodyA, <<"aTxt", "aBad">>,
      <<"aTxt", "aUpper">>,
      <<"aHome", "aBad", "aHash">> \o BodyMulti, Blank }

ContactPages ==
    { <<"form">> \o BodyA, <<"form">> \o BodyMulti,
      <<"cap", "form">> \o BodyA, Blank }

\* Rendered page content read after submission.
Htmls ==
    { <<"Thank", "You", "!">>, <<"we", "received", "your", "message">>,
      <<"we", "received">>, <<"your", "message", "sent">>,
      <<"thanks", "for", "contacting", "us">>,
      <<"we", "will", "contact", "you">>, <<"error", ":", "thank">> }

----------------------------------------------------------------------------
\* State of one POST /submit request.

VARIABLES
    req,            \* the request body
    pc,             \* position of the handler
    faults,         \* browser operations that have thrown so far
    err,            \* message of the exception caught by the handler
    browser,        \* "none", "open" or "closed"
    launches,       \* calls of chromium.launch
    closes,         \* calls of browser.close
    cur,            \* the page: its URL and DOM
    landing,        \* DOM first loaded at req.url
    navCalls,       \* calls of tryNavigateToContact
    navIdx,         \* tryNavigateToContact: index into patterns
    navGotos,       \* targets of the page.goto calls of tryNavigateToContact
    navQueried,     \* indices of the patterns whose lookup was issued
    navMatched,     \* indices whose lookup gave an element and its href
    navActed,       \* indices of the patterns whose target was navigated to
    scans,          \* runs of the fallback anchor scan
    navReturn,      \* return value of tryNavigateToContact
    fieldIdx,       \* fillHeuristics: index into FieldOrder
    candIdx,        \* tryFillList: index into the selector list
    typed,          \* fillHeuristics: the Fill Outcome
    cleared,        \* per field, elements whose el.fill('') completed
    typedInto,      \* per field, elements that received keystrokes
    fallbackTries,  \* lookups of the first textarea by the message fallback
    captchaDetected,
    submitCalls,    \* calls of clickSubmit
    submitLookups,  \* submit-selector lookups
    subIdx,         \* clickSubmit: index into submitSelectors
    clicks,         \* elements on which el.click() was called, in order
    pending,        \* selector indices whose click has not settled yet
    waiting,        \* the waitForTimeout(2500) of Promise.all is running
    enters,         \* Enter key presses delivered
    clicked,        \* return value of clickSubmit
    html,           \* page content read after submission
    screenshot,
    resp,           \* the HTTP response
    responses,      \* responses sent
    cc              \* the requests in flight together (SpecConcurrent)

ctl == <<pc, faults, err>>
brVars == <<browser, launches, closes>>
pageVars == <<cur, landing>>
navVars ==
    <<navCalls, navIdx, navGotos, navQueried, navMatched, navActed, scans,
      navReturn>>
navHist == <<navQueried, navMatched, navActed, scans, navReturn>>
fillVars == <<fieldIdx, candIdx, typed, cleared, typedInto, fallbackTries>>
subVars ==
    <<submitCalls, submitLookups, subIdx, clicks, pending, waiting, enters,
      clicked>>
outVars == <<captchaDetected, html, screenshot>>
respVars == <<resp, responses>>

\* The state of the single request of Spec and SpecFillForm, but for req.
single ==
    <<ctl, brVars, pageVars, navVars, fillVars, subVars, outVars, respVars>>

vars == <<req, single, cc>>

Fields == {"email", "name", "message", "phone", "company"}

Requests ==
    { r \in [url : {Absent, "", "nope", "http://site/"},
             email : {Absent, "a@b.com"},
             name : {Absent, "Al"},
             message : {Absent, "", "hi"},
             phone : {Absent, "555"},
             company : {Absent, "Acme"}] :
        (r.phone = Absent) = (r.company = Absent) }

NoResp == [status |-> 0, body |-> [pending |-> TRUE]]

\* No request is in flight in SpecConcurrent.
CcIdle == [pc |-> <<>>]

\* The state of a request before its handler has run, but for req and pc.
Blanks ==
    /\ faults = 0
    /\ err = Null
    /\ browser = "none"
    /\ launches = 0
    /\ closes = 0
    /\ cur = [url |-> NullUrl, dom |-> Blank]
    /\ landing = Blank
    /\ navCalls = 0
    /\ navIdx = 1
    /\ navGotos = <<>>
    /\ navQueried = {}
    /\ navMatched = {}
    /\ navActed = {}
    /\ scans = 0
    /\ navReturn = "pending"
    /\ fieldIdx = 1
    /\ candIdx = 1
    /\ typed = [k \in Fields |-> FALSE]
    /\ cleared = [k \in Fields |-> {}]
    /\ typedInto = [k \in Fields |-> {}]
    /\ fallbackTries = 0
    /\ captchaDetected = FALSE
    /\ submitCalls = 0
    /\ submitLookups = 0
    /\ subIdx = 1
    /\ clicks = <<>>
    /\ pending = {}
    /\ waiting = FALSE
    /\ enters = 0
    /\ clicked = FALSE
    /\ html = <<>>
    /\ screenshot = Null
    /\ resp = NoResp
    /\ responses = 0

Fresh == req \in Requests /\ cc = CcIdle /\ Blanks

Init == Fresh /\ pc = "start"

\* A browser operation returns: the handler moves on.
Goes(to) == pc' = to /\ UNCHANGED <<faults, err>>

\* A browser operation throws and nothing catches it before the handler's
\* catch block.
Throws(msg) ==
    /\ faults < MaxFaults
    /\ faults' = faults + 1
    /\ err' = msg
    /\ pc' = "catch"

\* A browser operation throws inside a try block that swallows the error.
Swallowed(to) ==
    /\ faults < MaxFaults
    /\ faults' = faults + 1
    /\ pc' = to
    /\ UNCHANGED err

\* res.status(status).json(body)
Respond(status, body) ==
    /\ resp' = [status |-> status, body |-> body]
    /\ responses' = responses + 1

----------------------------------------------------------------------------
\* POST /submit, up to the form probe.

\* Validate with the url test narrowed to `url === undefined`.
ValidateUndefinedOnly ==
    /\ pc = "start"
    /\ IF req.url # Absent
       THEN Goes("launch") /\ UNCHANGED respVars
       ELSE /\ Respond(400, [success |-> FALSE, reason |-> "missing url"])
            /\ Goes("done")
    /\ UNCHANGED <<req, cc, brVars, pageVars, navVars, fillVars, subVars,
                   outVars>>

\* const { url, ... } = req.body || {};  if (!url) return 400.
Validate ==
    /\ pc = "start"
    /\ IF Truthy(req.url)
       THEN Goes("launch") /\ UNCHANGED respVars
       ELSE /\ Respond(400, [success |-> FALSE, reason |-> "missing url"])
            /\ Goes("done")
    /\ UNCHANGED <<req, cc, brVars, pageVars, navVars, fillVars, subVars,
                   outVars>>

\* browser = await chromium.launch(...)
Launch ==
    /\ pc = "launch"
    /\ launches' = launches + 1
    /\ \/ Goes("newPage") /\ browser' = "open"
       \/ Throws("launch failed") /\ UNCHANGED browser
    /\ UNCHANGED <<req, cc, closes, pageVars, navVars, fillVars, subVars,
                   outVars, respVars>>

\* const page = await browser.newPage()
NewPage ==
    /\ pc = "newPage"
    /\ Goes("setUserAgent") \/ Throws("newPage failed")
    /\ UNCHANGED <<req, cc, brVars, pageVars, navVars, fillVars, subVars,
                   outVars, respVars>>

\* await page.setUserAgent(USER_AGENT): returns or throws, as the browser
\* library decides.
SetUserAgent ==
    /\ pc = "setUserAgent"
    /\ Goes("goto") \/ Throws("setUserAgent failed")
    /\ UNCHANGED <<req, cc, brVars, pageVars, navVars, fillVars, subVars,
                   outVars, respVars>>

\* await page.goto(url, ...): a URL that does not parse always throws.
Goto ==
    /\ pc = "goto"
    /\ \/ /\ Tokens(req.url) # NullUrl
          /\ Goes("probeForm")
          /\ \E dom \in LandingPages :
                /\ cur' = [url |-> Tokens(req.url), dom |-> dom]
                /\ landing' = dom
       \/ /\ Tokens(req.url) # NullUrl
          /\ Throws("goto failed")
          /\ UNCHANGED pageVars
       \/ /\ Tokens(req.url) = NullUrl
          /\ err' = "invalid url" /\ pc' = "catch"
          /\ UNCHANGED <<faults, pageVars>>
    /\ UNCHANGED <<req, cc, brVars, navVars, fillVars, subVars, outVars,
                   respVars>>

\* ProbeForm without the call of tryNavigateToContact.
ProbeFormNoNav ==
    /\ pc = "probeForm"
    /\ Goes("fill") \/ Throws("form probe failed")
    /\ UNCHANGED <<req, cc, brVars, pageVars, navVars, fillVars, subVars,
                   outVars, respVars>>

\* let foundForm = await page.$('form'); if (!foundForm) tryNavigateToContact
ProbeForm ==
    /\ pc = "probeForm"
    /\ \/ /\ Query(cur.dom, formSelector) # Null
          /\ Goes("fill")
          /\ UNCHANGED navVars
       \/ /\ Query(cur.dom, formSelector) = Null
          /\ Goes("nav")
          /\ navCalls' = navCalls + 1
          /\ UNCHANGED <<navIdx, navGotos, navHist>>
       \/ Throws("form probe failed") /\ UNCHANGED navVars
    /\ UNCHANGED <<req, cc, brVars, pageVars, fillVars, subVars, outVars,
                   respVars>>

----------------------------------------------------------------------------
\* tryNavigateToContact(page, url)

\* The documents page.goto(target) may load: a fragment of the current
\* document leaves the DOM alone.
PagesAt(target) ==
    IF StripFrag(target) = StripFrag(cur.url) THEN {cur.dom}
    ELSE ContactPages

\* await page.goto(target, ...).catch(() => null); return true
GotoContact(target, to) ==
    /\ navGotos' = Append(navGotos, target)
    /\ \/ /\ Goes(to)
          /\ \E dom \in PagesAt(target) : cur' = [url |-> target, dom |-> dom]
       \/ /\ Swallowed(to)
          /\ cur' \in {cur, [url |-> cur.url, dom |-> Blank]}

\* Where the pattern loop goes after patterns[navIdx].
AfterPattern == IF navIdx = Len(patterns) THEN "navScan" ELSE "nav"

\* NavPattern with the loop carrying on after page.goto instead of returning.
NavPatternNoReturn ==
    /\ pc = "nav"
    /\ navQueried' = navQueried \cup {navIdx}
    /\ navIdx' = IF navIdx = Len(patterns) THEN navIdx ELSE navIdx + 1
    /\ LET el == Query(cur.dom, <<patterns[navIdx]>>)
           href == IF el = Null THEN <<>> ELSE Attrs(el).href
           target == IF href = <<>> THEN NullUrl
                     ELSE safeUrl(Tokens(req.url), href)
       IN \/ /\ target # NullUrl
             /\ GotoContact(target, AfterPattern)
             /\ navMatched' = navMatched \cup {navIdx}
             /\ navActed' = navActed \cup {navIdx}
             /\ navReturn' = "true"
          \/ /\ \/ /\ target = NullUrl
                   /\ Goes(AfterPattern)
                   /\ navMatched' =
                         IF el = Null THEN navMatched
                         ELSE navMatched \cup {navIdx}
                \/ Swallowed(AfterPattern) /\ UNCHANGED navMatched
             /\ UNCHANGED <<navGotos, cur, navActed, navReturn>>
    /\ UNCHANGED <<req, cc, brVars, landing, navCalls, scans, fillVars, subVars,
                   outVars, respVars>>

\* One iteration of the loop over patterns: the lookup, the href, safeUrl and,
\* for a target that resolves, page.goto and return true.
NavPattern ==
    /\ pc = "nav"
    /\ navQueried' = navQueried \cup {navIdx}
    /\ LET el == Query(cur.dom, <<patterns[navIdx]>>)
           href == IF el = Null THEN <<>> ELSE Attrs(el).href
           target == IF href = <<>> THEN NullUrl
                     ELSE safeUrl(Tokens(req.url), href)
       IN \/ /\ target # NullUrl
             /\ GotoContact(target, "probeFormAgain")
             /\ navMatched' = navMatched \cup {navIdx}
             /\ navActed' = navActed \cup {navIdx}
             /\ navReturn' = "true"
             /\ UNCHANGED navIdx
          \/ /\ \/ /\ target = NullUrl
                   /\ Goes(AfterPattern)
                   /\ navMatched' =
                         IF el = Null THEN navMatched
                         ELSE navMatched \cup {navIdx}
                \/ Swallowed(AfterPattern) /\ UNCHANGED navMatched
             /\ navIdx' = IF navIdx = Len(patterns) THEN navIdx ELSE navIdx + 1
             /\ UNCHANGED <<navGotos, cur, navActed, navReturn>>
    /\ UNCHANGED <<req, cc, brVars, landing, navCalls, scans, fillVars, subVars,
                   outVars, respVars>>

\* /contact/i.test(a.text) || /contact/i.test(a.href)
MentionsContact(docUrl, e) ==
    \/ Contains(Attrs(e).text, <<"contact">>, TRUE)
    \/ Contains(HrefProp(docUrl, e), <<"contact">>, TRUE)

\* The target of the first anchor of the scan that is navigated to, if any.
ScanTarget(dom, docUrl, base) ==
    LET ok == {i \in 1..Len(dom) :
                  /\ Attrs(dom[i]).tag = "a"
                  /\ HrefProp(docUrl, dom[i]) # <<>>
                  /\ MentionsContact(docUrl, dom[i])
                  /\ safeUrl(base, HrefProp(docUrl, dom[i])) # NullUrl}
    IN IF ok = {} THEN NullUrl
       ELSE safeUrl(base,
                HrefProp(docUrl, dom[CHOOSE i \in ok : \A j \in ok : i <= j]))

\* NavScan returning true whether or not an anchor was navigated to.
NavScanAlwaysTrue ==
    /\ pc = "navScan"
    /\ scans' = scans + 1
    /\ navReturn' = "true"
    /\ LET target == ScanTarget(cur.dom, cur.url, Tokens(req.url))
       IN \/ target # NullUrl /\ GotoContact(target, "probeFormAgain")
          \/ /\ \/ target = NullUrl /\ Goes("probeFormAgain")
                \/ Swallowed("probeFormAgain")
             /\ UNCHANGED <<navGotos, cur>>
    /\ UNCHANGED <<req, cc, brVars, landing, navCalls, navIdx, navQueried,
                   navMatched, navActed, fillVars, subVars, outVars, respVars>>

\* The fallback scan over all anchors, and return false.
NavScan ==
    /\ pc = "navScan"
    /\ scans' = scans + 1
    /\ LET target == ScanTarget(cur.dom, cur.url, Tokens(req.url))
       IN \/ /\ target # NullUrl
             /\ GotoContact(target, "probeFormAgain")
             /\ navReturn' = "true"
          \/ /\ \/ target = NullUrl /\ Goes("probeFormAgain")
                \/ Swallowed("probeFormAgain")
             /\ navReturn' = "false"
             /\ UNCHANGED <<navGotos, cur>>
    /\ UNCHANGED <<req, cc, brVars, landing, navCalls, navIdx, navQueried,
                   navMatched, navActed, fillVars, subVars, outVars, respVars>>

\* foundForm = await page.$('form')  (after tryNavigateToContact)
ProbeFormAgain ==
    /\ pc = "probeFormAgain"
    /\ Goes("fill") \/ Throws("form probe failed")
    /\ UNCHANGED <<req, cc, brVars, pageVars, navVars, fillVars, subVars,
                   outVars, respVars>>

----------------------------------------------------------------------------
\* fillHeuristics(page, { name, email, message })

\* The data object the handler passes: only name, email and message are
\* taken from the request body.
Data ==
    [name |-> req.name, email |-> req.email, message |-> req.message,
     phone |-> Absent, company |-> Absent]

\* The value tryFillList is called with for a field (data.phone || '').
ValueOf(key) ==
    IF key \in {"phone", "company"}
    THEN (IF Truthy(Data[key]) THEN Data[key] ELSE "")
    ELSE Data[key]

\* Where fillHeuristics goes after the field at fieldIdx.
AfterField == IF fieldIdx = Len(FieldOrder) THEN "fallback" ELSE "fill"

NextField ==
    /\ fieldIdx' = IF fieldIdx = Len(FieldOrder) THEN fieldIdx ELSE fieldIdx + 1
    /\ candIdx' = 1

LastCandidate == candIdx = Len(SelectorsOf(FieldOrder[fieldIdx]))

\* Where tryFillList goes after a candidate that did not fill.
AfterCandidate == IF LastCandidate THEN AfterField ELSE "fill"

NextCandidate ==
    IF LastCandidate THEN NextField
    ELSE candIdx' = candIdx + 1 /\ UNCHANGED fieldIdx

\* if (!value) return false;
FillSkip ==
    /\ pc = "fill"
    /\ ~Truthy(ValueOf(FieldOrder[fieldIdx]))
    /\ Goes(AfterField)
    /\ NextField
    /\ UNCHANGED <<req, cc, brVars, pageVars, navVars, typed, cleared,
                   typedInto, fallbackTries, subVars, outVars, respVars>>

\* One iteration of tryFillList's loop: look the candidate up, clear the
\* element, type the value.
FillCandidate ==
    /\ pc = "fill"
    /\ Truthy(ValueOf(FieldOrder[fieldIdx]))
    /\ LET key == FieldOrder[fieldIdx]
           el == Query(cur.dom, <<SelectorsOf(key)[candIdx]>>)
       IN \/ /\ el = Null
             /\ Goes(AfterCandidate)
             /\ NextCandidate
             /\ UNCHANGED <<typed, cleared, typedInto>>
          \/ \* page.$ or el.fill('') throws
             /\ Swallowed(AfterCandidate)
             /\ NextCandidate
             /\ UNCHANGED <<typed, cleared, typedInto>>
          \/ \* el.type throws, before or after some keystrokes
             /\ el # Null
             /\ Swallowed(AfterCandidate)
             /\ NextCandidate
             /\ cleared' = [cleared EXCEPT ![key] = @ \cup {el}]
             /\ \E some \in BOOLEAN :
                   typedInto' =
                       [typedInto EXCEPT
                           ![key] = IF some THEN @ \cup {el} ELSE @]
             /\ UNCHANGED typed
          \/ /\ el # Null
             /\ Goes(AfterField)
             /\ NextField
             /\ cleared' = [cleared EXCEPT ![key] = @ \cup {el}]
             /\ typedInto' = [typedInto EXCEPT ![key] = @ \cup {el}]
             /\ typed' = [typed EXCEPT ![key] = TRUE]
    /\ UNCHANGED <<req, cc, brVars, pageVars, navVars, fallbackTries, subVars,
                   outVars, respVars>>

\* The keystrokes el.type(value) delivers to el: none for the empty string.
Keyed(value, el) == IF value = "" THEN {} ELSE {el}

\* if (!typed.message) { firstTextarea = await page.$('textarea');
\*   if (firstTextarea) { try { type(message); typed.message = true }
\*                        catch {} } }
FillFallback ==
    /\ pc = "fallback"
    /\ LET el == Query(cur.dom, textareaSelector)
       IN \/ /\ typed.message
             /\ Goes("captcha")
             /\ UNCHANGED <<typed, typedInto, fallbackTries>>
          \/ /\ ~typed.message /\ el = Null
             /\ Goes("captcha")
             /\ fallbackTries' = fallbackTries + 1
             /\ UNCHANGED <<typed, typedInto>>
          \/ \* the lookup is outside any try block
             /\ ~typed.message
             /\ Throws("textarea lookup failed")
             /\ fallbackTries' = fallbackTries + 1
             /\ UNCHANGED <<typed, typedInto>>
          \/ \* type(undefined) is rejected before any keystroke
             /\ ~typed.message /\ el # Null /\ Data.message = Absent
             /\ Goes("captcha")
             /\ fallbackTries' = fallbackTries + 1
             /\ UNCHANGED <<typed, typedInto>>
          \/ /\ ~typed.message /\ el # Null /\ Data.message # Absent
             /\ Goes("captcha")
             /\ fallbackTries' = fallbackTries + 1
             /\ typed' = [typed EXCEPT !.message = TRUE]
             /\ typedInto' =
                   [typedInto EXCEPT !.message = @ \cup Keyed(Data.message, el)]
          \/ /\ ~typed.message /\ el # Null /\ Data.message # Absent
             /\ Swallowed("captcha")
             /\ fallbackTries' = fallbackTries + 1
             /\ \E some \in BOOLEAN :
                   typedInto' =
                       [typedInto EXCEPT
                           !.message =
                               IF some THEN @ \cup Keyed(Data.message, el)
                               ELSE @]
             /\ UNCHANGED typed
    /\ UNCHANGED <<req, cc, brVars, pageVars, navVars, fieldIdx, candIdx,
                   cleared, subVars, outVars, respVars>>

----------------------------------------------------------------------------
\* The CAPTCHA check.

\* Attaching a screenshot: page.screenshot({ encoding: 'base64' }).
Shot == "base64-png"

CaptchaVerdict(shot) ==
    [success |-> FALSE, captcha |-> TRUE, reason |-> "captcha detected",
     screenshot |-> shot]

\* CaptchaProbe without the early return: the pipeline goes on to submit.
CaptchaProbeThenSubmit ==
    /\ pc = "captcha"
    /\ \/ /\ Goes("submit")
          /\ captchaDetected' = (Query(cur.dom, captchaSelector) # Null)
          /\ submitCalls' = submitCalls + 1
       \/ /\ Throws("captcha probe failed")
          /\ UNCHANGED <<captchaDetected, submitCalls>>
    /\ UNCHANGED <<req, cc, brVars, pageVars, navVars, fillVars, submitLookups,
                   subIdx, clicks, pending, waiting, enters, clicked, html,
                   screenshot, respVars>>

\* const captchaDetected = !!(await page.$('iframe[src*="recaptcha"], ...'))
CaptchaProbe ==
    /\ pc = "captcha"
    /\ \/ /\ Query(cur.dom, captchaSelector) # Null
          /\ Goes("captchaShot")
          /\ captchaDetected' = TRUE
          /\ UNCHANGED <<submitCalls>>
       \/ /\ Query(cur.dom, captchaSelector) = Null
          /\ Goes("submit")
          /\ submitCalls' = submitCalls + 1
          /\ UNCHANGED captchaDetected
       \/ /\ Throws("captcha probe failed")
          /\ UNCHANGED <<captchaDetected, submitCalls>>
    /\ UNCHANGED <<req, cc, brVars, pageVars, navVars, fillVars, submitLookups,
                   subIdx, clicks, pending, waiting, enters, clicked, html,
                   screenshot, respVars>>

\* const screenshot = await page.screenshot(...)  (CAPTCHA branch)
CaptchaShot ==
    /\ pc = "captchaShot"
    /\ \/ Goes("captchaClose") /\ screenshot' = Shot
       \/ Throws("screenshot failed") /\ UNCHANGED screenshot
    /\ UNCHANGED <<req, cc, brVars, pageVars, navVars, fillVars, subVars,
                   captchaDetected, html, respVars>>

\* await browser.close(); return res.json({ ..., captcha: true, ... })
CaptchaClose ==
    /\ pc = "captchaClose"
    /\ closes' = closes + 1
    /\ \/ /\ Goes("done")
          /\ browser' = "closed"
          /\ Respond(200, CaptchaVerdict(screenshot))
       \/ /\ Throws("close failed")
          /\ UNCHANGED <<browser, respVars>>
    /\ UNCHANGED <<req, cc, launches, pageVars, navVars, fillVars, subVars,
                   outVars>>

----------------------------------------------------------------------------
\* clickSubmit(page)

AfterSelector == IF subIdx = Len(submitSelectors) THEN "enter" ELSE "submit"

NextSelector ==
    subIdx' = IF subIdx = Len(submitSelectors) THEN subIdx ELSE subIdx + 1

\* One iteration of clickSubmit's loop up to Promise.all: the lookup and,
\* for an element, the start of el.click() and of waitForTimeout(2500).
SubmitCandidate ==
    /\ pc = "submit"
    /\ submitLookups' = submitLookups + 1
    /\ LET el == Query(cur.dom, <<submitSelectors[subIdx]>>)
       IN \/ /\ \/ el = Null /\ Goes(AfterSelector)
                \/ Swallowed(AfterSelector)
             /\ NextSelector
             /\ UNCHANGED <<clicks, pending, waiting>>
          \/ /\ el # Null
             /\ Goes("join")
             /\ clicks' = Append(clicks, el)
             /\ pending' = pending \cup {subIdx}
             /\ waiting' = TRUE
             /\ UNCHANGED subIdx
    /\ UNCHANGED <<req, cc, brVars, pageVars, navVars, fillVars, submitCalls,
                   enters, clicked, outVars, respVars>>

\* The positions of the handler at which a started click may still settle.
Live == {"join", "submit", "enter", "settle", "content", "shot", "close"}

\* el.click().catch(() => {}): a started click settles;
\* its failure is turned into a fulfilled promise, so both outcomes leave the
\* handler in the same state.
ClickSettles ==
    /\ pc \in Live
    /\ \E i \in pending : pending' = pending \ {i}
    /\ UNCHANGED ctl
    /\ UNCHANGED <<req, cc, brVars, pageVars, navVars, fillVars, submitCalls,
                   submitLookups, subIdx, clicks, waiting, enters, clicked,
                   outVars, respVars>>

\* page.waitForTimeout(2500) completes, or rejects: the rejection rejects
\* Promise.all at once and the catch of the loop goes on to the next
\* selector.
SubmitWait ==
    /\ pc = "join"
    /\ waiting
    /\ waiting' = FALSE
    /\ \/ Goes("join") /\ UNCHANGED subIdx
       \/ Swallowed(AfterSelector) /\ NextSelector
    /\ UNCHANGED <<req, cc, brVars, pageVars, navVars, fillVars, submitCalls,
                   submitLookups, clicks, pending, enters, clicked, outVars,
                   respVars>>

\* Promise.all resolves: the click of this iteration has settled and the
\* wait has completed; return true.
SubmitJoin ==
    /\ pc = "join"
    /\ ~waiting
    /\ subIdx \notin pending
    /\ Goes("settle")
    /\ clicked' = TRUE
    /\ UNCHANGED <<req, cc, brVars, pageVars, navVars, fillVars, submitCalls,
                   submitLookups, subIdx, clicks, pending, waiting, enters,
                   outVars, respVars>>

\* try { press('Enter'); waitForTimeout(1500); return true } catch {}
\* return false
SubmitEnter ==
    /\ pc = "enter"
    /\ \/ Goes("settle") /\ enters' = enters + 1 /\ clicked' = TRUE
       \/ Swallowed("settle") /\ enters' = enters + 1 /\ clicked' = FALSE
       \/ Swallowed("settle") /\ enters' = enters /\ clicked' = FALSE
    /\ UNCHANGED <<req, cc, brVars, pageVars, navVars, fillVars, submitCalls,
                   submitLookups, subIdx, clicks, pending, waiting, outVars,
                   respVars>>

----------------------------------------------------------------------------
\* The verdict.

SuccessPhrases ==
    << <<"thank", "you">>, <<"we", "received", "your", "message">>,
       <<"message", "sent">>, <<"thanks", "for", "contacting">>,
       <<"we", "will", "contact", "you">> >>

\* SuccessTest without the regular expression's i flag.
SuccessTestCaseSensitive(h) ==
    \E k \in 1..Len(SuccessPhrases) : Contains(h, SuccessPhrases[k], FALSE)

\* /thank you|we received your message|...|we will contact you/i.test(html)
SuccessTest(h) ==
    \E k \in 1..Len(SuccessPhrases) : Contains(h, SuccessPhrases[k], TRUE)

\* Verdict with the branches of the reason's conditional swapped.
VerdictReasonSwapped(success, wasClicked, shot) ==
    [success |-> success, captcha |-> FALSE, clicked |-> wasClicked,
     reason |-> IF success THEN "no success message" ELSE Null,
     screenshot |-> shot]

\* The body of the final res.json(...).
Verdict(success, wasClicked, shot) ==
    [success |-> success, captcha |-> FALSE, clicked |-> wasClicked,
     reason |-> IF success THEN Null ELSE "no success message",
     screenshot |-> shot]

\* ErrorBody that drops the exception's message.
ErrorBodyGeneric(message) == [success |-> FALSE, reason |-> "internal error"]

\* The body of the catch block's res.status(500).json(...).
ErrorBody(message) == [success |-> FALSE, reason |-> message]

\* await page.waitForTimeout(2000)
Settle ==
    /\ pc = "settle"
    /\ Goes("content") \/ Throws("wait failed")
    /\ UNCHANGED <<req, cc, brVars, pageVars, navVars, fillVars, subVars,
                   outVars, respVars>>

\* const html = await page.content(); const success = ...test(html)
Content ==
    /\ pc = "content"
    /\ \/ \E h \in Htmls :
             /\ html' = h
             /\ Goes(IF SuccessTest(h) THEN "close" ELSE "shot")
       \/ Throws("content failed") /\ UNCHANGED html
    /\ UNCHANGED <<req, cc, brVars, pageVars, navVars, fillVars, subVars,
                   captchaDetected, screenshot, respVars>>

\* if (!success) screenshot = await page.screenshot(...)
FailureShot ==
    /\ pc = "shot"
    /\ \/ Goes("close") /\ screenshot' = Shot
       \/ Throws("screenshot failed") /\ UNCHANGED screenshot
    /\ UNCHANGED <<req, cc, brVars, pageVars, navVars, fillVars, subVars,
                   captchaDetected, html, respVars>>

\* await browser.close(); return res.json({ success, captcha: false, ... })
Close ==
    /\ pc = "close"
    /\ closes' = closes + 1
    /\ \/ /\ Goes("done")
          /\ browser' = "closed"
          /\ Respond(200, Verdict(SuccessTest(html), clicked, screenshot))
       \/ /\ Throws("close failed")
          /\ UNCHANGED <<browser, respVars>>
    /\ UNCHANGED <<req, cc, launches, pageVars, navVars, fillVars, subVars,
                   outVars>>

\* Catch that answers without closing the browser.
CatchNoClose ==
    /\ pc = "catch"
    /\ Goes("done")
    /\ Respond(500, ErrorBody(err))
    /\ UNCHANGED <<req, cc, brVars, pageVars, navVars, fillVars, subVars,
                   outVars>>

\* catch (err) { try { if (browser) await browser.close(); } catch(e){}
\*               return res.status(500).json({ success: false, reason }) }
Catch ==
    /\ pc = "catch"
    /\ \/ /\ browser = "none"
          /\ Goes("done")
          /\ UNCHANGED <<browser, closes>>
       \/ /\ browser # "none"
          /\ closes' = closes + 1
          /\ \/ Goes("done") /\ browser' = "closed"
             \/ Swallowed("done") /\ UNCHANGED browser
    /\ Respond(500, ErrorBody(err))
    /\ UNCHANGED <<req, cc, launches, pageVars, navVars, fillVars, subVars,
                   outVars>>

Next ==
    \/ Validate
    \/ Launch
    \/ NewPage
    \/ SetUserAgent
    \/ Goto
    \/ ProbeForm
    \/ NavPattern
    \/ NavScan
    \/ ProbeFormAgain
    \/ FillSkip
    \/ FillCandidate
    \/ FillFallback
    \/ CaptchaProbe
    \/ CaptchaShot
    \/ CaptchaClose
    \/ SubmitCandidate
    \/ ClickSettles
    \/ SubmitWait
    \/ SubmitJoin
    \/ SubmitEnter
    \/ Settle
    \/ Content
    \/ FailureShot
    \/ Close
    \/ Catch

Spec == Init /\ [][Next]_vars

----------------------------------------------------------------------------
\* POST /fill-form, the earlier variant of the handler.  It is modelled over
\* the same variables; typedInto holds the elements field.fill() has filled.

ffNameSelectors ==
    << Has("input", "name", <<"name">>),
       Has("input", "placeholder", <<"name">>),
       Has("input", "id", <<"name">>),
       Sel("input", "type", "eq", "text", FALSE) >>

ffEmailSelectors ==
    << Sel("input", "type", "eq", "email", FALSE),
       Has("input", "name", <<"email">>),
       Has("input", "placeholder", <<"email">>) >>

ffMessageSelectors ==
    << Sel("textarea", "", "any", "", FALSE),
       Has("input", "name", <<"message">>),
       Has("input", "placeholder", <<"message">>),
       Has("textarea", "name", <<"comment">>) >>

ffSubmitSelectors ==
    << Sel("button", "type", "eq", "submit", FALSE),
       Sel("input", "type", "eq", "submit", FALSE),
       HasText("button", <<"Send">>), HasText("button", <<"Submit">>),
       HasText("button", <<"Contact">>),
       Sel("button", "", "any", "", FALSE) >>

\* 'form, input[type="email"], textarea'
ffReadySelector ==
    << Sel("form", "", "any", "", FALSE),
       Sel("input", "type", "eq", "email", FALSE),
       Sel("textarea", "", "any", "", FALSE) >>

\* The order of the three fill loops.
ffFieldOrder == <<"name", "email", "message">>

ffSelectorsOf(key) ==
    CASE key = "name" -> ffNameSelectors
      [] key = "email" -> ffEmailSelectors
      [] key = "message" -> ffMessageSelectors

\* The variables POST /fill-form has no use for.
ffUnused ==
    <<landing, navVars, typed, cleared, fallbackTries, submitCalls,
      submitLookups, pending, waiting, enters, clicked, captchaDetected,
      html>>

InitFillForm == Fresh /\ pc = "ffStart"

\* An operation of the try block throws: control goes to its catch block.
ffThrows(msg) ==
    /\ faults < MaxFaults
    /\ faults' = faults + 1
    /\ err' = msg
    /\ pc' = "ffCatch"

\* if (!url) return res.status(400).json({ error: 'URL is required' })
FillFormValidate ==
    /\ pc = "ffStart"
    /\ IF Truthy(req.url)
       THEN Goes("ffLaunch") /\ UNCHANGED respVars
       ELSE /\ Respond(400, [error |-> "URL is required"])
            /\ Goes("done")
    /\ UNCHANGED <<req, cc, brVars, cur, fieldIdx, candIdx, typedInto, subIdx,
                   clicks, screenshot, ffUnused>>

\* browser = await chromium.launch(...)
FillFormLaunch ==
    /\ pc = "ffLaunch"
    /\ launches' = launches + 1
    /\ \/ Goes("ffNewPage") /\ browser' = "open"
       \/ ffThrows("launch failed") /\ UNCHANGED browser
    /\ UNCHANGED <<req, cc, closes, cur, fieldIdx, candIdx, typedInto, subIdx,
                   clicks, screenshot, respVars, ffUnused>>

\* context = await browser.newContext(); page = await context.newPage()
FillFormNewPage ==
    /\ pc = "ffNewPage"
    /\ Goes("ffGoto") \/ ffThrows("newPage failed")
    /\ UNCHANGED <<req, cc, brVars, cur, fieldIdx, candIdx, typedInto, subIdx,
                   clicks, screenshot, respVars, ffUnused>>

\* await page.goto(url, { waitUntil: 'networkidle', timeout: 30000 })
FillFormGoto ==
    /\ pc = "ffGoto"
    /\ \/ /\ Tokens(req.url) # NullUrl
          /\ Goes("ffReady")
          /\ \E dom \in LandingPages :
                cur' = [url |-> Tokens(req.url), dom |-> dom]
       \/ /\ Tokens(req.url) # NullUrl
          /\ ffThrows("goto failed")
          /\ UNCHANGED cur
       \/ /\ Tokens(req.url) = NullUrl
          /\ err' = "invalid url" /\ pc' = "ffCatch"
          /\ UNCHANGED <<faults, cur>>
    /\ UNCHANGED <<req, cc, brVars, fieldIdx, candIdx, typedInto, subIdx,
                   clicks, screenshot, respVars, ffUnused>>

\* await page.waitForSelector('form, input[type="email"], textarea', ...):
\* times out on a page without such an element.
FillFormReady ==
    /\ pc = "ffReady"
    /\ \/ /\ Query(cur.dom, ffReadySelector) # Null
          /\ Goes("ffFill")
       \/ /\ Query(cur.dom, ffReadySelector) = Null
          /\ err' = "timeout" /\ pc' = "ffCatch"
          /\ UNCHANGED faults
       \/ ffThrows("waitForSelector failed")
    /\ UNCHANGED <<req, cc, brVars, cur, fieldIdx, candIdx, typedInto, subIdx,
                   clicks, screenshot, respVars, ffUnused>>

ffLastCandidate == candIdx = Len(ffSelectorsOf(ffFieldOrder[fieldIdx]))

\* Where control goes when the loop of the field at fieldIdx ends.
ffAfterField == IF fieldIdx = Len(ffFieldOrder) THEN "ffSubmit" ELSE "ffFill"

ffNextField ==
    /\ fieldIdx' = IF fieldIdx = Len(ffFieldOrder) THEN fieldIdx
                   ELSE fieldIdx + 1
    /\ candIdx' = 1

ffAfterCandidate == IF ffLastCandidate THEN ffAfterField ELSE "ffFill"

ffNextCandidate ==
    IF ffLastCandidate THEN ffNextField
    ELSE candIdx' = candIdx + 1 /\ UNCHANGED fieldIdx

\* One iteration of a fill loop: field = await page.$(selector);
\* if (field) { await field.fill(value || default); break }, catch: continue.
FillFormField ==
    /\ pc = "ffFill"
    /\ LET key == ffFieldOrder[fieldIdx]
           el == Query(cur.dom, <<ffSelectorsOf(key)[candIdx]>>)
       IN \/ /\ \/ el = Null /\ Goes(ffAfterCandidate)
                \/ Swallowed(ffAfterCandidate)
             /\ ffNextCandidate
             /\ UNCHANGED typedInto
          \/ /\ el # Null
             /\ Goes(ffAfterField)
             /\ ffNextField
             /\ typedInto' = [typedInto EXCEPT ![key] = @ \cup {el}]
    /\ UNCHANGED <<req, cc, brVars, cur, subIdx, clicks, screenshot, respVars,
                   ffUnused>>

ffAfterSelector ==
    IF subIdx = Len(ffSubmitSelectors) THEN "ffSettle" ELSE "ffSubmit"

ffNextSelector ==
    subIdx' = IF subIdx = Len(ffSubmitSelectors) THEN subIdx ELSE subIdx + 1

\* One iteration of the submit loop: button = await page.$(selector);
\* if (button) { await button.click(); break }, catch: continue.
FillFormSubmit ==
    /\ pc = "ffSubmit"
    /\ LET el == Query(cur.dom, <<ffSubmitSelectors[subIdx]>>)
       IN \/ /\ \/ el = Null /\ Goes(ffAfterSelector)
                \/ Swallowed(ffAfterSelector)
             /\ ffNextSelector
             /\ UNCHANGED clicks
          \/ /\ el # Null
             /\ Swallowed(ffAfterSelector)
             /\ ffNextSelector
             /\ clicks' = Append(clicks, el)
          \/ /\ el # Null
             /\ Goes("ffSettle")
             /\ clicks' = Append(clicks, el)
             /\ UNCHANGED subIdx
    /\ UNCHANGED <<req, cc, brVars, cur, fieldIdx, candIdx, typedInto,
                   screenshot, respVars, ffUnused>>

\* await page.waitForTimeout(3000); screenshot = await page.screenshot(...)
FillFormSettle ==
    /\ pc = "ffSettle"
    /\ \/ Goes("ffClose") /\ screenshot' = Shot
       \/ ffThrows("screenshot failed") /\ UNCHANGED screenshot
    /\ UNCHANGED <<req, cc, brVars, cur, fieldIdx, candIdx, typedInto, subIdx,
                   clicks, respVars, ffUnused>>

\* The body of the final res.json(...); the timestamp is left out.
ffSuccessBody ==
    [success |-> TRUE, url |-> req.url,
     message |-> "Form submitted successfully"]

\* The body of the catch block's res.status(500).json(...).
ffErrorBody(message) == [success |-> FALSE, error |-> message, url |-> req.url]

\* await browser.close(); res.json({ success: true, ... })
FillFormClose ==
    /\ pc = "ffClose"
    /\ closes' = closes + 1
    /\ \/ /\ Goes("done")
          /\ browser' = "closed"
          /\ Respond(200, ffSuccessBody)
       \/ /\ ffThrows("close failed")
          /\ UNCHANGED <<browser, respVars>>
    /\ UNCHANGED <<req, cc, launches, cur, fieldIdx, candIdx, typedInto, subIdx,
                   clicks, screenshot, ffUnused>>

\* catch (error) { if (browser) { await browser.close(); }
\*                 res.status(500).json({ success: false, error, ... }) }
\* The close is not guarded: when it throws, the handler's promise rejects
\* and res.status(500) is never reached.
FillFormCatch ==
    /\ pc = "ffCatch"
    /\ \/ /\ browser = "none"
          /\ Goes("done")
          /\ Respond(500, ffErrorBody(err))
          /\ UNCHANGED <<browser, closes>>
       \/ /\ browser # "none"
          /\ closes' = closes + 1
          /\ Goes("done")
          /\ browser' = "closed"
          /\ Respond(500, ffErrorBody(err))
       \/ /\ browser # "none"
          /\ closes' = closes + 1
          /\ Swallowed("rejected")
          /\ UNCHANGED <<browser, respVars>>
    /\ UNCHANGED <<req, cc, launches, cur, fieldIdx, candIdx, typedInto, subIdx,
                   clicks, screenshot, ffUnused>>

NextFillForm ==
    \/ FillFormValidate
    \/ FillFormLaunch
    \/ FillFormNewPage
    \/ FillFormGoto
    \/ FillFormReady
    \/ FillFormField
    \/ FillFormSubmit
    \/ FillFormSettle
    \/ FillFormClose
    \/ FillFormCatch

SpecFillForm == InitFillForm /\ [][NextFillForm]_vars

----------------------------------------------------------------------------
\* Concurrent POST /submit requests.  Each request runs the handler; the
\* handlers interleave at their awaits.  The steps between the page's
\* creation and the reading of its content are taken as one.

Reqs == 1..MaxReqs

\* chromium.launch returns a new browser instance at every call.
BrowserIds == 1..MaxReqs

NoBrowser == 0

CcUrls == {Absent, "http://a/", "http://b/"}

\* The content each site serves after a submission.
ContentAt(url) ==
    IF url = "http://a/" THEN <<"Thank", "You", "!">>
    ELSE <<"error", ":", "thank">>

CcInputs == [url : CcUrls, message : {Absent, "hi"}]

CcStart ==
    { [in |-> i,
       pc |-> [r \in Reqs |-> "start"],
       browser |-> [r \in Reqs |-> NoBrowser],
       tab |-> [r \in Reqs |-> NoBrowser],
       owner |-> [b \in BrowserIds |-> 0],
       open |-> [b \in BrowserIds |-> FALSE],
       ops |-> {},
       closedBy |-> {},
       typed |-> [r \in Reqs |-> FALSE],
       html |-> [r \in Reqs |-> <<>>],
       fault |-> [r \in Reqs |-> FALSE],
       status |-> [r \in Reqs |-> 0],
       success |-> [r \in Reqs |-> FALSE],
       faults |-> 0] : i \in [Reqs -> CcInputs] }

InitConcurrent ==
    /\ cc \in CcStart
    /\ req = [url |-> Absent]
    /\ pc = "idle"
    /\ Blanks

\* An assignment to a browser variable shared by all the handlers.
SetBrowserShared(c, r, b) == [c EXCEPT !.browser = [q \in Reqs |-> b]]

\* let browser; ... browser = await ...: the variable is local to the call
\* of the handler.
SetBrowser(c, r, b) == [c EXCEPT !.browser[r] = b]

\* An operation of request r throws for a reason of its own.
CcFault(r) ==
    /\ cc.faults < MaxFaults
    /\ cc' = [cc EXCEPT !.faults = @ + 1, !.fault[r] = TRUE,
                        !.pc[r] = "catch"]

\* An operation on a browser that has been closed throws.
CcGone(r) == cc' = [cc EXCEPT !.pc[r] = "catch"]

\* if (!url) return res.status(400).json(...)
CcValidate(r) ==
    /\ cc.pc[r] = "start"
    /\ cc' = IF Truthy(cc.in[r].url)
             THEN [cc EXCEPT !.pc[r] = "launch"]
             ELSE [cc EXCEPT !.pc[r] = "done", !.status[r] = 400]
    /\ UNCHANGED <<req, single>>

\* browser = await chromium.launch(...)
CcLaunch(r) ==
    /\ cc.pc[r] = "launch"
    /\ \/ LET free == {b \in BrowserIds : cc.owner[b] = 0}
              b == CHOOSE x \in free : \A y \in free : x <= y
          IN cc' = SetBrowser([cc EXCEPT !.owner[b] = r, !.open[b] = TRUE,
                                        !.pc[r] = "newPage"], r, b)
       \/ CcFault(r)
    /\ UNCHANGED <<req, single>>

\* const page = await browser.newPage()
CcNewPage(r) ==
    /\ cc.pc[r] = "newPage"
    /\ LET b == cc.browser[r]
       IN \/ /\ cc.open[b]
             /\ cc' = [cc EXCEPT !.tab[r] = b, !.ops = @ \cup {<<r, b>>},
                                 !.pc[r] = "work"]
          \/ ~cc.open[b] /\ CcGone(r)
          \/ cc.open[b] /\ CcFault(r)
    /\ UNCHANGED <<req, single>>

\* The operations on the page from setUserAgent to the settle delay; the
\* Fill Outcome is an object created by this call of fillHeuristics.
CcWork(r) ==
    /\ cc.pc[r] = "work"
    /\ LET b == cc.tab[r]
       IN \/ /\ cc.open[b]
             /\ cc' = [cc EXCEPT !.ops = @ \cup {<<r, b>>},
                                 !.typed[r] = Truthy(cc.in[r].message),
                                 !.pc[r] = "content"]
          \/ ~cc.open[b] /\ CcGone(r)
          \/ cc.open[b] /\ CcFault(r)
    /\ UNCHANGED <<req, single>>

\* const html = await page.content()
CcContent(r) ==
    /\ cc.pc[r] = "content"
    /\ LET b == cc.tab[r]
       IN \/ /\ cc.open[b]
             /\ cc' = [cc EXCEPT !.ops = @ \cup {<<r, b>>},
                                 !.html[r] = ContentAt(cc.in[r].url),
                                 !.pc[r] = "close"]
          \/ ~cc.open[b] /\ CcGone(r)
          \/ cc.open[b] /\ CcFault(r)
    /\ UNCHANGED <<req, single>>

\* await browser.close(); return res.json({ success, ... })
CcClose(r) ==
    /\ cc.pc[r] = "close"
    /\ LET b == cc.browser[r]
       IN \/ cc' = [cc EXCEPT !.closedBy = @ \cup {<<r, b>>},
                              !.open[b] = FALSE,
                              !.status[r] = 200,
                              !.success[r] = SuccessTest(cc.html[r]),
                              !.pc[r] = "done"]
          \/ /\ cc.faults < MaxFaults
             /\ cc' = [cc EXCEPT !.closedBy = @ \cup {<<r, b>>},
                                 !.faults = @ + 1, !.fault[r] = TRUE,
                                 !.pc[r] = "catch"]
    /\ UNCHANGED <<req, single>>

\* catch (err) { try { if (browser) await browser.close(); } catch(e){}
\*               return res.status(500).json(...) }
CcCatch(r) ==
    /\ cc.pc[r] = "catch"
    /\ LET b == cc.browser[r]
       IN \/ /\ b = NoBrowser
             /\ cc' = [cc EXCEPT !.status[r] = 500, !.pc[r] = "done"]
          \/ /\ b # NoBrowser
             /\ cc' = [cc EXCEPT !.closedBy = @ \cup {<<r, b>>},
                                 !.open[b] = FALSE,
                                 !.status[r] = 500, !.pc[r] = "done"]
          \/ /\ b # NoBrowser
             /\ cc.faults < MaxFaults
             /\ cc' = [cc EXCEPT !.closedBy = @ \cup {<<r, b>>},
                                 !.faults = @ + 1,
                                 !.status[r] = 500, !.pc[r] = "done"]
    /\ UNCHANGED <<req, single>>

NextConcurrent ==
    \/ \E r \in Reqs : CcValidate(r)
    \/ \E r \in Reqs : CcLaunch(r)
    \/ \E r \in Reqs : CcNewPage(r)
    \/ \E r \in Reqs : CcWork(r)
    \/ \E r \in Reqs : CcContent(r)
    \/ \E r \in Reqs : CcClose(r)
    \/ \E r \in Reqs : CcCatch(r)

SpecConcurrent == InitConcurrent /\ [][NextConcurrent]_vars

----------------------------------------------------------------------------
\* Properties of POST /submit.

Responded == responses > 0

Has200 == Responded /\ resp.status = 200

IsTrue(body, k) == k \in DOMAIN body /\ body[k] = TRUE

NoSubmitAction ==
    submitCalls = 0 /\ submitLookups = 0 /\ clicks = <<>> /\ enters = 0

\* C1, as stated: once the CAPTCHA probe has found an element, clickSubmit is
\* never invoked (no submit-selector lookup, no click, no Enter press) and
\* the response has captcha=true and success=false.
C1_AsStated ==
    captchaDetected =>
        /\ NoSubmitAction
        /\ Responded =>
              /\ IsTrue(resp.body, "captcha")
              /\ resp.body.success = FALSE

\* C1, amended: once the CAPTCHA probe has found an element, clickSubmit is
\* never invoked and the response has success=false; it has captcha=true
\* when neither the screenshot nor browser.close() of the CAPTCHA branch
\* throws, and otherwise it is the HTTP 500 response, which has no captcha
\* field.
C1_CaptchaSkipsSubmit ==
    captchaDetected =>
        /\ NoSubmitAction
        /\ Responded =>
              /\ resp.body.success = FALSE
              /\ IF err = Null
                 THEN resp.status = 200 /\ IsTrue(resp.body, "captcha")
                 ELSE resp.status = 500 /\ "captcha" \notin DOMAIN resp.body

\* A CAPTCHA was found and the CAPTCHA verdict was sent.
C1_Witness ==
    /\ captchaDetected /\ Has200
    /\ IsTrue(resp.body, "captcha")
    /\ pc = "done"

\* C2: when a response is sent for a request that launched a browser,
\* browser.close has been invoked, on every exit path (success, 'no success
\* message', CAPTCHA, exception after launch).
C2_ClosedBeforeResponse ==
    (Responded /\ browser # "none") => closes >= 1

\* A request whose pipeline threw after launch was answered.
C2_Witness ==
    /\ Responded /\ resp.status = 500 /\ browser # "none"
    /\ err = "screenshot failed" /\ closes = 1

\* C3: a request whose url is missing or empty never launches a browser and
\* is answered with HTTP 400 {success:false, reason:'missing url'}.
C3_MissingUrl ==
    req.url \in {Absent, ""} =>
        /\ launches = 0
        /\ browser = "none"
        /\ pc = "done" =>
              /\ responses = 1
              /\ resp.status = 400
              /\ resp.body = [success |-> FALSE, reason |-> "missing url"]

\* A request with an empty url was answered.
C3_Witness == req.url = "" /\ pc = "done" /\ resp.status = 400

\* The confirmation phrases, matched without regard to case.
ConfirmationPhrase(h) ==
    \/ Contains(h, <<"thank", "you">>, TRUE)
    \/ Contains(h, <<"we", "received", "your", "message">>, TRUE)
    \/ Contains(h, <<"message", "sent">>, TRUE)
    \/ Contains(h, <<"thanks", "for", "contacting">>, TRUE)
    \/ Contains(h, <<"we", "will", "contact", "you">>, TRUE)

C5_AsStated ==
    /\ \A k \in Fields : Cardinality(typedInto[k]) <= 1
    /\ Cardinality({clicks[i] : i \in 1..Len(clicks)}) <= 1


\* No step of fillHeuristics has run.
FillUntouched ==
    /\ fieldIdx = 1 /\ candIdx = 1
    /\ \A k \in Fields : ~typed[k] /\ cleared[k] = {} /\ typedInto[k] = {}

\* The URLs of the contact anchors of a page: anchors with an href that
\* parses, whose text or href mentions "contact" in any case.
ContactTargets(dom) ==
    { (IF Head(Attrs(dom[i]).href) = "/" THEN <<"http://site">>
       ELSE <<"http://site", "/">>) \o Attrs(dom[i]).href : i \in
        { j \in 1..Len(dom) :
            /\ Attrs(dom[j]).tag = "a"
            /\ Attrs(dom[j]).href # <<>>
            /\ Head(Attrs(dom[j]).href) \in {"/", "#"}
            /\ \/ Contains(Attrs(dom[j]).text, <<"contact">>, TRUE)
               \/ Contains(Attrs(dom[j]).href, <<"contact">>, TRUE) } }

BeforeFill ==
    {"start", "launch", "newPage", "setUserAgent", "goto", "probeForm",
     "nav", "navScan", "probeFormAgain"}

C6_State ==
    /\ Query(landing, formSelector) # Null =>
          navCalls = 0 /\ navGotos = <<>>
    /\ pc \in BeforeFill => FillUntouched
    /\ ( /\ pc \notin BeforeFill \/ pc = "probeFormAgain"
         /\ faults = 0
         /\ Query(landing, formSelector) = Null
         /\ ContactTargets(landing) # {} ) =>
          Len(navGotos) = 1 /\ navGotos[1] \in ContactTargets(landing)

\* C6: when the landing page has no form but has a contact anchor (an
\* anchor mentioning "contact" whose href resolves, no lookup failing),
\* tryNavigateToContact issues page.goto of the resolved contact URL, and
\* that navigation precedes every step of fillHeuristics: no page.goto of
\* tryNavigateToContact is issued once filling has begun.  When the landing
\* page has a form, tryNavigateToContact is never invoked.
C6_NavigateBeforeFill ==
    /\ []C6_State
    /\ [][(navGotos' # navGotos \/ navCalls' # navCalls) =>
             (FillUntouched /\ FillUntouched')]_vars

\* A request navigated to the contact page and then filled a field there.
C6_Witness ==
    /\ Query(landing, formSelector) = Null
    /\ navGotos = << <<"http://site", "/", "contact">> >>
    /\ typed.email /\ typedInto.email = {"inYour"}

\* C7, as stated: a request to a site whose landing page embeds CAPTCHA
\* markup is answered {success:false, captcha:true, reason:'captcha
\* detected'} with a screenshot, whether or not the landing page has a
\* form (no browser operation failing).
C7_AsStated ==
    ( /\ pc = "done" /\ resp.status = 200 /\ faults = 0
      /\ Query(landing, captchaSelector) # Null ) =>
        /\ resp.body.success = FALSE
        /\ IsTrue(resp.body, "captcha")
        /\ resp.body.reason = "captcha detected"
        /\ resp.body.screenshot # Null

C8_State ==
    /\ err # Null =>
          /\ pc \in {"catch", "done"}
          /\ pc = "done" =>
                /\ responses = 1
                /\ resp.status = 500
                /\ resp.body = [success |-> FALSE, reason |-> err]
                /\ browser # "none" => closes >= 1
    /\ (Responded /\ resp.status = 500) => err # Null
    /\ pc = "catch" => err # Null /\ ~Responded

\* C8: an exception that propagates out of a pipeline step aborts the
\* remaining steps (after it, nothing but the catch block's browser.close
\* and response happens) and the request ends with HTTP 500
\* {success:false, reason:<exception message>}, sent after browser.close
\* was invoked if a browser had been launched.
C8_ExceptionAborts ==
    /\ []C8_State
    /\ [][err # Null =>
             /\ pc = "catch" /\ pc' = "done"
             /\ UNCHANGED <<req, cc, launches, pageVars, navVars, fillVars,
                            subVars, outVars>>]_vars

\* The failure screenshot threw: the request ended with a 500 carrying it.
C8_Witness ==
    /\ pc = "done" /\ err = "screenshot failed" /\ ~captchaDetected
    /\ resp = [status |-> 500,
               body |-> [success |-> FALSE, reason |-> "screenshot failed"]]
    /\ browser = "closed"

\* C9, as stated: when fillHeuristics has returned (no browser operation
\* failing), a non-empty phone (or company) value of the request was typed
\* into the element matching a phone (or company) selector of the page, and
\* the Fill Outcome marks the field.
C9_AsStated ==
    (pc = "captcha" /\ faults = 0) =>
        \A k \in {"phone", "company"} :
            ( /\ Truthy(req[k])
              /\ \E i \in 1..Len(SelectorsOf(k)) :
                    Query(cur.dom, <<SelectorsOf(k)[i]>>) # Null ) =>
                typed[k] /\ typedInto[k] # {}

\* C10: every response has a non-null reason exactly when success is
\* false, a screenshot only when success is false or a CAPTCHA was found,
\* and never success=true together with captcha=true.
C10_VerdictInvariant ==
    Responded =>
        LET b == resp.body
            shot == "screenshot" \in DOMAIN b /\ b.screenshot # Null
        IN /\ "reason" \in DOMAIN b
           /\ (b.reason # Null) <=> (b.success = FALSE)
           /\ shot => (b.success = FALSE \/ IsTrue(b, "captcha"))
           /\ ~(b.success = TRUE /\ IsTrue(b, "captcha"))

\* A Success verdict was sent.
C10_Witness ==
    /\ Has200 /\ resp.body.success = TRUE /\ resp.body.reason = Null
    /\ resp.body.screenshot = Null

\* C11, as stated: every verdict response (Success, CaptchaDetected or
\* Failure) carries the five fields success, captcha, clicked, reason and
\* screenshot, clicked being a boolean.
C11_AsStated ==
    Has200 =>
        /\ {"success", "captcha", "clicked", "reason", "screenshot"}
              \subseteq DOMAIN resp.body
        /\ resp.body.clicked \in BOOLEAN

\* C12, as stated: once some pattern has matched an element, no later
\* pattern is queried and the anchor scan is not run.
C12_AsStated ==
    /\ \A i \in navMatched : \A j \in navQueried : j <= i
    /\ navMatched # {} => scans = 0

\* The patterns whose lookup gave an element with an href that safeUrl
\* resolves.
Usable ==
    { i \in navMatched :
        LET el == Query(landing, <<patterns[i]>>)
        IN /\ el # Null
           /\ Attrs(el).href # <<>>
           /\ safeUrl(Tokens(req.url), Attrs(el).href) # NullUrl }

\* C12, amended: only the first pattern whose lookup gives an element with
\* an href that resolves is acted on: page.goto is issued for it, no later
\* pattern is queried and the anchor scan is not run; a pattern whose
\* element has no href, or an href that does not resolve, is passed over;
\* the anchor scan runs only after every pattern was queried and none gave
\* such an element.
C12_FirstUsablePattern ==
    /\ navActed = Usable
    /\ Cardinality(navActed) <= 1
    /\ \A i \in navActed : \A j \in navQueried : j <= i
    /\ navActed # {} => scans = 0
    /\ scans > 0 => navQueried = 1..Len(patterns)
    /\ scans <= 1

\* A pattern matched an anchor without an href, and a later pattern was
\* acted on.
C12_Witness ==
    /\ navActed # {}
    /\ \E i \in navMatched : i \notin navActed
    /\ pc = "fill"

\* The page is as page.goto(req.url) loaded it.
PageUnchanged == cur = [url |-> Tokens(req.url), dom |-> landing]

\* C13, as stated: tryNavigateToContact returns true only if a navigation
\* occurred (the page is at the target); when it returns false no page.goto
\* was issued and the page is unchanged; at most one page.goto per call.
C13_AsStated ==
    /\ navReturn = "true" => Len(navGotos) = 1 /\ cur.url = navGotos[1]
    /\ navReturn = "false" => navGotos = <<>> /\ PageUnchanged
    /\ Len(navGotos) <= 1

\* C13, amended: tryNavigateToContact returns true exactly when it issued
\* page.goto, whether or not that navigation succeeded; when it returns
\* false no page.goto was issued and the page is unchanged; at most one
\* page.goto is issued per call.
C13_TrueIffGotoIssued ==
    /\ navReturn = "true" => Len(navGotos) = 1
    /\ navReturn = "false" => navGotos = <<>> /\ PageUnchanged
    /\ navReturn = "pending" => navGotos = <<>>
    /\ Len(navGotos) <= 1 /\ navCalls <= 1

\* tryNavigateToContact returned true although its page.goto failed.
C13_Witness ==
    /\ navReturn = "true"
    /\ Len(navGotos) = 1
    /\ cur.url # navGotos[1]
    /\ pc = "fill"

\* C14, as stated: the message fallback is attempted only when the message
\* value is non-empty; with the message absent or empty no element is typed
\* into for the message field and the Fill Outcome for message stays false.
C14_AsStated ==
    /\ fallbackTries > 0 => Truthy(req.message)
    /\ ~Truthy(req.message) => typedInto.message = {} /\ ~typed.message

\* C15, as stated: no element-lookup or fill error raised inside
\* fillHeuristics, the fallback textarea lookup included, reaches the
\* handler's catch block or becomes an HTTP 500.
C15_AsStated ==
    /\ err # "textarea lookup failed"
    /\ resp.status = 500 => resp.body.reason # "textarea lookup failed"

\* The positions of the handler after clickSubmit has returned.
AfterSubmit == {"settle", "content", "shot", "close"}

\* C16, as stated: clickSubmit returns true exactly when a click or an Enter
\* key press was issued; Enter is sent only if no selector gave an element
\* (no click was started); false is returned only when no click was started
\* and no Enter key press was delivered.
C16_AsStated ==
    pc \in AfterSubmit =>
        /\ clicked <=> (clicks # <<>> \/ enters > 0)
        /\ enters > 0 => clicks = <<>>
        /\ ~clicked => clicks = <<>> /\ enters = 0

\* C17, as stated: at most one submission action, a click or an Enter key
\* press, is issued within one request.
C17_AsStated == Len(clicks) + enters <= 1

\* C18, as stated: once clickSubmit has returned, every click it started has
\* settled and the wait started with it has completed.
C18_AsStated == pc \in AfterSubmit => pending = {} /\ ~waiting

\* The handler has run to its end: it returned, or its promise rejected.
Ended == pc \in {"done", "rejected"}

\* C19, as stated: a request whose handler has run to its end has received
\* exactly one response, and no request ever receives a second one.
C19_AsStated ==
    /\ responses <= 1
    /\ Ended => responses = 1

\* The browser request r launched, if any.
Launched(r) == {b \in BrowserIds : cc.owner[b] = r}

\* Every operation and every close of a request is on a browser it launched,
\* and distinct requests hold distinct browsers.
OwnBrowserOnly ==
    /\ \A p \in cc.ops \cup cc.closedBy : cc.owner[p[2]] = p[1]
    /\ \A r \in Reqs :
          /\ Cardinality(Launched(r)) <= 1
          /\ cc.browser[r] # NoBrowser => Launched(r) = {cc.browser[r]}
          /\ cc.tab[r] # NoBrowser => cc.tab[r] = cc.browser[r]

\* What a request's handler has produced follows from the request's own
\* input and the failures of its own operations.
OwnOutcomeOnly ==
    \A r \in Reqs :
        /\ cc.pc[r] \in {"content", "close"} =>
              /\ cc.typed[r] = Truthy(cc.in[r].message)
              /\ ~cc.fault[r]
              /\ cc.open[cc.browser[r]]
        /\ cc.pc[r] = "catch" => cc.fault[r]
        /\ cc.pc[r] = "done" =>
              /\ cc.status[r] = 400 <=> ~Truthy(cc.in[r].url)
              /\ cc.status[r] = 500 <=> cc.fault[r]
              /\ cc.status[r] = 200 =>
                    /\ cc.success[r] = SuccessTest(ContentAt(cc.in[r].url))
                    /\ cc.typed[r] = Truthy(cc.in[r].message)
              /\ \A b \in Launched(r) : <<r, b>> \in cc.closedBy

====
